---- MODULE Spec2Model ----
(***************************************************************************)
(* Trash Change Dashboard (src/app.py): change detection between raster    *)
(* masks, strided point sampling with a hard cap, and the point table.     *)
(*                                                                         *)
(* Pixel indices are 0-based as in the source.  A raster is a record       *)
(* [shape |-> <<rows, cols>>, px |-> function on (0..rows-1) \X            *)
(* (0..cols-1)].  Geographic coordinates are kept in half-pixel units so   *)
(* that the pixel-centre offset of rasterio's xy stays an integer.         *)
(***************************************************************************)
EXTENDS Integers, Sequences, FiniteSets

VARIABLES
    \* ---- the point sampler called on its own (SamplerSpec)
    s_pc, mask, transform, step, max_points, res,
    \* ---- compute_changes called on its own (ChangesSpec)
    c_pc, a, b, new_mask, cleaned_mask,
    \* ---- points_to_dataframe / to_csv called on their own (TableSpec)
    t_pc, points, df, csv,
    \* ---- one run of the script (Spec)
    pc, base_exists, disk, sel, loaded, ui, pairs, idx, calls

sampler_vars == <<s_pc, mask, transform, step, max_points, res>>
changes_vars == <<c_pc, a, b, new_mask, cleaned_mask>>
table_vars   == <<t_pc, points, df, csv>>
run_vars     == <<pc, base_exists, disk, sel, loaded, ui, pairs, idx, calls>>
vars == <<sampler_vars, changes_vars, table_vars, run_vars>>

-----------------------------------------------------------------------------
(* Bounds *)

\* mask_to_points on its own: masks of at most MaxArea pixels, of any
\* shape, with steps 1..MaxStep and caps 1..MaxCap.
MaxArea == 9
MaxStep == 3
MaxCap == 3
\* compute_changes on its own: rasters of at most MaxCells pixels whose
\* values range over -NegPixels..MaxPixel.
MaxCells == 2
NegPixels == 1
MaxPixel == 2
\* points_to_dataframe on its own: at most MaxLen points with coordinates
\* in 0..MaxCoord.
MaxLen == 3
MaxCoord == 1
\* A run of the script: how many positions of the step slider and of the
\* max-points input, counted from their minimum, the operator may pick.
SliderChoices == 2
NumberChoices == 1

\* Line 133: st.slider(min_value=4, max_value=32, value=8, step=2).
SliderMin == 4
SliderMax == 32
SliderIncrement == 2
\* Line 134: st.number_input(min_value=1000, max_value=200000, step=1000).
NumberMin == 1000
NumberMax == 200000
NumberIncrement == 1000

-----------------------------------------------------------------------------
(* Rasters *)

Cells(rows, cols) == (0..(rows - 1)) \X (0..(cols - 1))

Rasters(rows, cols, values) ==
    { [shape |-> <<rows, cols>>, px |-> f] : f \in [Cells(rows, cols) -> values] }

\* The shapes (rows, cols) of the rasters of at most n pixels.
Shapes(n) == { sh \in (1..n) \X (1..n) : sh[1] * sh[2] <= n }

Rows(m) == m.shape[1]
Cols(m) == m.shape[2]

\* An affine pixel -> geographic mapping, rasterio's Affine(a, b, c, d, e, f).
NorthUp == [a |-> 2, b |-> 0, c |-> 100, d |-> 0, e |-> -2, f |-> 50]
Sheared == [a |-> 2, b |-> 1, c |-> 0, d |-> 1, e |-> -2, f |-> 0]
Transforms == {NorthUp, Sheared}

\* rasterio.transform.xy(transform, r, c): the centre of pixel (r, c),
\* (x, y) = transform * (c + 1/2, r + 1/2), here in half units.
xy(t, r, c) ==
    << t.a * (2 * c + 1) + t.b * (2 * r + 1) + 2 * t.c,
       t.d * (2 * c + 1) + t.e * (2 * r + 1) + 2 * t.f >>

-----------------------------------------------------------------------------
(* mask_to_points *)

\* mask[r, ::step].any()
RECURSIVE SliceAny(_, _, _, _)
SliceAny(m, r, c, st) ==
    IF c >= Cols(m) THEN FALSE
    ELSE IF m.px[<<r, c>>] THEN TRUE
    ELSE SliceAny(m, r, c + st, st)

\* A pre-check that looks at mask[r, step::step], missing column 0.
RowSliceAnyFromStep(m, r, st) == SliceAny(m, r, st, st)

RowSliceAny(m, r, st) == SliceAny(m, r, 0, st)

\* The state of the scan: pts as the code builds it, the running count,
\* whether the capped return was taken, an exception raised by an index
\* outside the array ("" when none), and the pixel each point came from.
EmptyScan == [pts |-> <<>>, count |-> 0, returned |-> FALSE,
              raised |-> "", pixels |-> <<>>]

InBounds(m, r, c) == r \in 0..(Rows(m) - 1) /\ c \in 0..(Cols(m) - 1)

\* A cap tested with > instead of >=.
VisitCapAfter(m, t, r, c, maxp, acc) ==
    IF ~InBounds(m, r, c) THEN [acc EXCEPT !.raised = "IndexError"]
    ELSE IF m.px[<<r, c>>]
         THEN LET p == xy(t, r, c)
              IN  [acc EXCEPT !.pts = Append(@, <<p[2], p[1]>>),
                              !.pixels = Append(@, <<r, c>>),
                              !.count = @ + 1,
                              !.returned = (acc.count + 1 > maxp)]
         ELSE acc

\* Lines 75-80: the body of the column loop at pixel (r, c).  Reading a
\* pixel outside the array is numpy's IndexError.
Visit(m, t, r, c, maxp, acc) ==
    IF ~InBounds(m, r, c) THEN [acc EXCEPT !.raised = "IndexError"]
    ELSE IF m.px[<<r, c>>]
         THEN LET p == xy(t, r, c)
              IN  [acc EXCEPT !.pts = Append(@, <<p[2], p[1]>>),
                              !.pixels = Append(@, <<r, c>>),
                              !.count = @ + 1,
                              !.returned = (acc.count + 1 >= maxp)]
         ELSE acc

\* A column loop that tests the cap only once the row is finished.
RECURSIVE ScanColsWholeRow(_, _, _, _, _, _, _)
ScanColsWholeRow(m, t, st, maxp, r, c, acc) ==
    IF acc.raised # "" \/ c >= Cols(m) THEN acc
    ELSE LET nxt == Visit(m, t, r, c, maxp, acc)
         IN  ScanColsWholeRow(m, t, st, maxp, r, c + st,
                              [nxt EXCEPT !.returned = acc.returned \/ @])

\* A column loop whose range includes cols itself.
RECURSIVE ScanColsInclusive(_, _, _, _, _, _, _)
ScanColsInclusive(m, t, st, maxp, r, c, acc) ==
    IF acc.returned \/ acc.raised # "" \/ c > Cols(m) THEN acc
    ELSE ScanColsInclusive(m, t, st, maxp, r, c + st, Visit(m, t, r, c, maxp, acc))

\* Lines 74-80: for c in range(0, cols, step).
RECURSIVE ScanCols(_, _, _, _, _, _, _)
ScanCols(m, t, st, maxp, r, c, acc) ==
    IF acc.returned \/ acc.raised # "" \/ c >= Cols(m) THEN acc
    ELSE ScanCols(m, t, st, maxp, r, c + st, Visit(m, t, r, c, maxp, acc))

\* Lines 71-73: the row-level pre-check.
SkipRow(m, r, st) == ~RowSliceAny(m, r, st)

\* Lines 70-81: for r in range(0, rows, step).
RECURSIVE ScanRows(_, _, _, _, _, _)
ScanRows(m, t, st, maxp, r, acc) ==
    IF acc.returned \/ acc.raised # "" \/ r >= Rows(m) THEN acc
    ELSE IF SkipRow(m, r, st) THEN ScanRows(m, t, st, maxp, r + st, acc)
    ELSE ScanRows(m, t, st, maxp, r + st, ScanCols(m, t, st, maxp, r, 0, acc))

\* The same scan with the loops exchanged: columns outside, rows inside.
Transpose(m) ==
    [shape |-> <<Cols(m), Rows(m)>>,
     px |-> [p \in Cells(Cols(m), Rows(m)) |-> m.px[<<p[2], p[1]>>]]]

Swap(s) == [i \in 1..Len(s) |-> <<s[i][2], s[i][1]>>]

mask_to_points_colmajor(m, t, st, maxp) ==
    LET sc == ScanRows(Transpose(m), t, st, maxp, 0, EmptyScan)
        px == Swap(sc.pixels)
    IN  [sc EXCEPT !.pixels = px,
                   !.pts = [i \in 1..Len(px) |->
                              <<xy(t, px[i][1], px[i][2])[2],
                                xy(t, px[i][1], px[i][2])[1]>>]]

\* Lines 66-81.
mask_to_points(m, t, st, maxp) == ScanRows(m, t, st, maxp, 0, EmptyScan)

-----------------------------------------------------------------------------
(* points_to_dataframe and DataFrame.to_csv(index=False) *)

\* A DataFrame: the column labels in order and each column's values.
Schema == <<"latitude", "longitude">>

\* lat, lon = zip(*points)
Unzip(pts) == [lat |-> [i \in 1..Len(pts) |-> pts[i][1]],
               lon |-> [i \in 1..Len(pts) |-> pts[i][2]]]

\* An empty branch that returns pd.DataFrame() with no columns.
points_to_dataframe_noschema(pts) ==
    IF pts = <<>>
    THEN [columns |-> <<>>, data |-> <<>>]
    ELSE [columns |-> Schema,
          data |-> <<Unzip(pts).lat, Unzip(pts).lon>>]

\* Lines 83-87.  data[k] holds the values of column columns[k].
points_to_dataframe(pts) ==
    IF pts = <<>>
    THEN [columns |-> Schema, data |-> << <<>>, <<>> >>]
    ELSE [columns |-> Schema,
          data |-> <<Unzip(pts).lat, Unzip(pts).lon>>]

NumRows(d) == IF d.data = <<>> THEN 0 ELSE Len(d.data[1])

\* One line of delimited text: the fields with a "," between neighbours.
RECURSIVE Join(_)
Join(fields) ==
    IF Len(fields) = 0 THEN <<>>
    ELSE IF Len(fields) = 1 THEN <<fields[1]>>
    ELSE <<fields[1], ",">> \o Join(Tail(fields))

\* Line 153: df.to_csv(index=False), as the sequence of its lines: the
\* header, then one line per row in row order.
to_csv(d) ==
    <<Join(d.columns)>> \o
    [i \in 1..NumRows(d) |-> Join([k \in 1..Len(d.columns) |-> d.data[k][i]])]

-----------------------------------------------------------------------------
(* compute_changes *)

\* Thresholds written >= where the source has > and ==.
compute_changes_ge(x, y) ==
    [new |-> [shape |-> x.shape,
              px |-> [p \in DOMAIN x.px |-> x.px[p] = 0 /\ y.px[p] >= 0]],
     cleaned |-> [shape |-> x.shape,
                  px |-> [p \in DOMAIN x.px |-> x.px[p] >= 0 /\ y.px[p] = 0]]]

\* "new" computed as any change of value.
compute_changes_ne(x, y) ==
    [new |-> [shape |-> x.shape,
              px |-> [p \in DOMAIN x.px |-> x.px[p] # y.px[p] /\ y.px[p] > 0]],
     cleaned |-> [shape |-> x.shape,
                  px |-> [p \in DOMAIN x.px |-> x.px[p] > 0 /\ y.px[p] = 0]]]

\* Lines 107-108: (a==0) & (b>0), (a>0) & (b==0), elementwise on two
\* arrays of one shape.
compute_changes(x, y) ==
    [new |-> [shape |-> x.shape,
              px |-> [p \in DOMAIN x.px |-> x.px[p] = 0 /\ y.px[p] > 0]],
     cleaned |-> [shape |-> x.shape,
                  px |-> [p \in DOMAIN x.px |-> x.px[p] > 0 /\ y.px[p] = 0]]]

-----------------------------------------------------------------------------
(* The sampler on its own: every mask, transform, step and cap *)

AllTrue(rows, cols) == [shape |-> <<rows, cols>>,
                        px |-> [p \in Cells(rows, cols) |-> TRUE]]

\* The mask of the worked example: shape (4, 4), every pixel true.
ExampleMask == AllTrue(4, 4)

Idle == "idle"

SamplerIdle ==
    /\ s_pc = Idle /\ mask = Idle /\ transform = Idle /\ step = 0
    /\ max_points = 0 /\ res = Idle
ChangesIdle ==
    /\ c_pc = Idle /\ a = Idle /\ b = Idle /\ new_mask = Idle
    /\ cleaned_mask = Idle
TableIdle == t_pc = Idle /\ points = <<>> /\ df = Idle /\ csv = Idle
RunIdle ==
    /\ pc = Idle /\ base_exists = FALSE /\ disk = <<>> /\ sel = <<>>
    /\ loaded = <<>> /\ ui = <<>> /\ pairs = <<>> /\ idx = 0 /\ calls = <<>>

SamplerInit ==
    /\ s_pc = "call"
    /\ \/ \E sh \in Shapes(MaxArea) : mask \in Rasters(sh[1], sh[2], BOOLEAN)
       \/ mask = ExampleMask
    /\ transform \in Transforms
    /\ step \in 1..MaxStep
    /\ max_points \in 1..MaxCap
    /\ res = Idle
    /\ ChangesIdle /\ TableIdle /\ RunIdle

CallMaskToPoints ==
    /\ s_pc = "call"
    /\ res' = mask_to_points(mask, transform, step, max_points)
    /\ s_pc' = "done"
    /\ UNCHANGED <<mask, transform, step, max_points>>
    /\ UNCHANGED <<changes_vars, table_vars, run_vars>>

SamplerNext == CallMaskToPoints

SamplerSpec == SamplerInit /\ [][SamplerNext]_vars

-----------------------------------------------------------------------------
(* compute_changes on its own: every pair of rasters of one shape *)

PixelValues == (0 - NegPixels)..MaxPixel

ChangesInit ==
    /\ c_pc = "call"
    /\ \E sh \in Shapes(MaxCells) :
          /\ a \in Rasters(sh[1], sh[2], PixelValues)
          /\ b \in Rasters(sh[1], sh[2], PixelValues)
    /\ new_mask = Idle /\ cleaned_mask = Idle
    /\ SamplerIdle /\ TableIdle /\ RunIdle

CallComputeChanges ==
    /\ c_pc = "call"
    /\ new_mask' = compute_changes(a, b).new
    /\ cleaned_mask' = compute_changes(a, b).cleaned
    /\ c_pc' = "done"
    /\ UNCHANGED <<a, b>>
    /\ UNCHANGED <<sampler_vars, table_vars, run_vars>>

ChangesNext == CallComputeChanges

ChangesSpec == ChangesInit /\ [][ChangesNext]_vars

-----------------------------------------------------------------------------
(* points_to_dataframe and to_csv on their own: every short point list *)

PointValues == (0..MaxCoord) \X (0..MaxCoord)

PointLists == UNION { [1..n -> PointValues] : n \in 0..MaxLen }

TableInit ==
    /\ t_pc = "table"
    /\ points \in PointLists
    /\ df = Idle /\ csv = Idle
    /\ SamplerIdle /\ ChangesIdle /\ RunIdle

CallPointsToDataframe ==
    /\ t_pc = "table"
    /\ df' = points_to_dataframe(points)
    /\ t_pc' = "csv"
    /\ UNCHANGED <<points, csv>>
    /\ UNCHANGED <<sampler_vars, changes_vars, run_vars>>

CallToCsv ==
    /\ t_pc = "csv"
    /\ csv' = to_csv(df)
    /\ t_pc' = "done"
    /\ UNCHANGED <<points, df>>
    /\ UNCHANGED <<sampler_vars, changes_vars, run_vars>>

TableNext == CallPointsToDataframe \/ CallToCsv

TableSpec == TableInit /\ [][TableNext]_vars

-----------------------------------------------------------------------------
(* One run of the script, top to bottom *)

None == "(none)"
Unreadable == "unreadable"

Labels == <<"5y", "2y", "3m">>

\* The .tif files the folder may hold, and what rasterio finds in one: a
\* single-band raster with its transform, or a file it cannot open.
FileNames == {"s2_5y.tif", "s2_2y.tif", "s2_3m.tif"}
RunShapes == {<<1, 1>>, <<1, 2>>}
RunRasters == UNION { Rasters(sh[1], sh[2], {0, 1}) : sh \in RunShapes }
Contents ==
    {[readable |-> FALSE, arr |-> Unreadable, transform |-> NorthUp]}
    \cup {[readable |-> TRUE, arr |-> r, transform |-> NorthUp] : r \in RunRasters}

Disks == UNION { [S -> Contents] : S \in SUBSET FileNames }

\* src.bounds of a raster with transform t: left, bottom, right, top.
BoundsOf(t, arr) ==
    [left |-> t.c, top |-> t.f,
     right |-> t.c + t.a * Cols(arr), bottom |-> t.f + t.e * Rows(arr)]

\* Lines 52-55: what load_mask returns for a file that opens.
load_mask(content) ==
    [arr |-> content.arr, transform |-> content.transform,
     bounds |-> BoundsOf(content.transform, content.arr)]

SliderSteps ==
    { v \in SliderMin..SliderMax :
        /\ (v - SliderMin) % SliderIncrement = 0
        /\ (v - SliderMin) \div SliderIncrement < SliderChoices }
NumberValues ==
    { v \in { NumberMin + k * NumberIncrement : k \in 0..(NumberChoices - 1) } :
        v <= NumberMax }

Cmap(key) == IF key = "5y" THEN "Reds" ELSE IF key = "2y" THEN "Blues" ELSE "Greens"

Title(x, y) == <<x, "->", y>>

Init ==
    /\ pc = "start"
    /\ base_exists \in BOOLEAN
    /\ disk \in Disks
    /\ base_exists = FALSE => disk = <<>>
    /\ sel = <<>>
    /\ loaded = <<>>
    /\ ui = <<>>
    /\ pairs = <<>>
    /\ idx = 0
    /\ calls = <<>>
    /\ SamplerIdle /\ ChangesIdle /\ TableIdle

Others == <<sampler_vars, changes_vars, table_vars>>

\* Lines 25-27.
PathMissing ==
    /\ pc = "start"
    /\ ~base_exists
    /\ ui' = Append(ui, [kind |-> "warning", what |-> "Path does not exist"])
    /\ pc' = "stopped"
    /\ UNCHANGED <<base_exists, disk, sel, loaded, pairs, idx, calls, Others>>

\* Lines 29-32.
NoTifs ==
    /\ pc = "start"
    /\ base_exists
    /\ DOMAIN disk = {}
    /\ ui' = Append(ui, [kind |-> "warning", what |-> "No .tif files found"])
    /\ pc' = "stopped"
    /\ UNCHANGED <<base_exists, disk, sel, loaded, pairs, idx, calls, Others>>

\* Lines 29-48: the files are listed and the three select boxes answer.
PickWindows ==
    /\ pc = "start"
    /\ base_exists
    /\ DOMAIN disk # {}
    /\ sel' \in [{"5y", "2y", "3m"} -> {None} \cup DOMAIN disk]
    /\ pc' = "load"
    /\ idx' = 1
    /\ UNCHANGED <<base_exists, disk, loaded, ui, pairs, calls, Others>>

\* Lines 91-92: a window with nothing selected is passed over.
LoadSkip ==
    /\ pc = "load"
    /\ idx <= Len(Labels)
    /\ sel[Labels[idx]] = None
    /\ idx' = idx + 1
    /\ UNCHANGED <<pc, base_exists, disk, sel, loaded, ui, pairs, calls, Others>>

\* Lines 93-94: the file opens and its mask is kept under the label.
LoadMask ==
    /\ pc = "load"
    /\ idx <= Len(Labels)
    /\ sel[Labels[idx]] # None
    /\ disk[sel[Labels[idx]]].readable
    /\ LET label == Labels[idx]
           entry == [arr |-> load_mask(disk[sel[label]]).arr,
                     transform |-> load_mask(disk[sel[label]]).transform,
                     bounds |-> load_mask(disk[sel[label]]).bounds,
                     name |-> sel[label]]
       IN  loaded' = [k \in DOMAIN loaded \cup {label} |->
                        IF k = label THEN entry ELSE loaded[k]]
    /\ idx' = idx + 1
    /\ UNCHANGED <<pc, base_exists, disk, sel, ui, pairs, calls, Others>>

\* Line 93 with a file rasterio cannot open: load_mask raises, nothing
\* catches it, the run ends there with the exception on the page.
LoadRaises ==
    /\ pc = "load"
    /\ idx <= Len(Labels)
    /\ sel[Labels[idx]] # None
    /\ ~disk[sel[Labels[idx]]].readable
    /\ ui' = Append(ui, [kind |-> "exception", name |-> sel[Labels[idx]]])
    /\ pc' = "aborted"
    /\ UNCHANGED <<base_exists, disk, sel, loaded, pairs, idx, calls, Others>>

MaskImages ==
    LET shown == SelectSeq(Labels, LAMBDA k : k \in DOMAIN loaded)
    IN  [i \in 1..Len(shown) |->
           [kind |-> "mask", key |-> shown[i], name |-> loaded[shown[i]].name,
            arr |-> loaded[shown[i]].arr, cmap |-> Cmap(shown[i])]]

PairsOf(ld) ==
    (IF "5y" \in DOMAIN ld /\ "2y" \in DOMAIN ld THEN <<<<"5y", "2y">>>> ELSE <<>>)
    \o (IF "2y" \in DOMAIN ld /\ "3m" \in DOMAIN ld THEN <<<<"2y", "3m">>>> ELSE <<>>)

\* Lines 97-114: the loaded masks are shown and the pairs are listed.
ShowMasks ==
    /\ pc = "load"
    /\ idx > Len(Labels)
    /\ ui' = ui \o MaskImages
    /\ pairs' = PairsOf(loaded)
    /\ idx' = 1
    /\ pc' = "loop"
    /\ UNCHANGED <<base_exists, disk, sel, loaded, calls, Others>>

\* Line 120.
ShapeMismatch(x, y) == x.shape # y.shape

\* A mismatch that ends the loop (break) instead of passing to the next pair.
PairMismatchBreak ==
    /\ pc = "loop"
    /\ idx <= Len(pairs)
    /\ LET x == loaded[pairs[idx][1]].arr
           y == loaded[pairs[idx][2]].arr
       IN  /\ ShapeMismatch(x, y)
           /\ ui' = Append(ui, [kind |-> "error",
                                title |-> Title(pairs[idx][1], pairs[idx][2]),
                                shapes |-> <<x.shape, y.shape>>])
    /\ idx' = Len(pairs) + 1
    /\ UNCHANGED <<pc, base_exists, disk, sel, loaded, pairs, calls, Others>>

\* Lines 116-122: the shapes differ; the error is shown and the loop
\* continues with the next pair.
PairMismatch ==
    /\ pc = "loop"
    /\ idx <= Len(pairs)
    /\ LET x == loaded[pairs[idx][1]].arr
           y == loaded[pairs[idx][2]].arr
       IN  /\ ShapeMismatch(x, y)
           /\ ui' = Append(ui, [kind |-> "error",
                                title |-> Title(pairs[idx][1], pairs[idx][2]),
                                shapes |-> <<x.shape, y.shape>>])
    /\ idx' = idx + 1
    /\ UNCHANGED <<pc, base_exists, disk, sel, loaded, pairs, calls, Others>>

\* Lines 116-156: the shapes agree; the change masks, the map and the
\* download of the layer the operator picks.
PairCompute ==
    /\ pc = "loop"
    /\ idx <= Len(pairs)
    /\ LET x == loaded[pairs[idx][1]].arr
           y == loaded[pairs[idx][2]].arr
           t == loaded[pairs[idx][2]].transform
           bd == loaded[pairs[idx][2]].bounds
           title == Title(pairs[idx][1], pairs[idx][2])
           ch == compute_changes(x, y)
       IN  /\ ~ShapeMismatch(x, y)
           /\ \E stp \in SliderSteps, max_pts \in NumberValues,
                 which \in {"NEW", "CLEANED"} :
                LET use_mask == IF which = "NEW" THEN ch.new ELSE ch.cleaned
                    color == IF which = "NEW" THEN "red" ELSE "green"
                    pts == mask_to_points(use_mask, t, stp, max_pts).pts
                IN  ui' = ui \o
                      << [kind |-> "change", title |-> title, layer |-> "NEW",
                          arr |-> ch.new],
                         [kind |-> "change", title |-> title, layer |-> "CLEANED",
                          arr |-> ch.cleaned],
                         [kind |-> "map", title |-> title,
                          center2 |-> <<bd.top + bd.bottom, bd.left + bd.right>>,
                          markers |-> pts, color |-> color],
                         [kind |-> "download", title |-> title, layer |-> which,
                          data |-> to_csv(points_to_dataframe(pts))] >>
    /\ calls' = Append(calls, pairs[idx])
    /\ idx' = idx + 1
    /\ UNCHANGED <<pc, base_exists, disk, sel, loaded, pairs, Others>>

\* Line 158.
Finish ==
    /\ pc = "loop"
    /\ idx > Len(pairs)
    /\ ui' = Append(ui, [kind |-> "info"])
    /\ pc' = "done"
    /\ UNCHANGED <<base_exists, disk, sel, loaded, pairs, idx, calls, Others>>

Next ==
    \/ PathMissing \/ NoTifs \/ PickWindows
    \/ LoadSkip \/ LoadMask \/ LoadRaises
    \/ ShowMasks
    \/ PairMismatch \/ PairCompute
    \/ Finish

Spec == Init /\ [][Next]_vars

-----------------------------------------------------------------------------
(* Reference notions the properties are stated with *)

\* Every pixel index of m in row-major order.
RowMajor(m) ==
    [i \in 1..(Rows(m) * Cols(m)) |-> <<(i - 1) \div Cols(m), (i - 1) % Cols(m)>>]

OnGrid(p, st) == p[1] % st = 0 /\ p[2] % st = 0

\* The true pixels of the stride grid, in row-major order.
StridedTrue(m, st) ==
    SelectSeq(RowMajor(m), LAMBDA p : OnGrid(p, st) /\ m.px[p])

RowMajorLess(p, q) == p[1] < q[1] \/ (p[1] = q[1] /\ p[2] < q[2])

\* The (latitude, longitude) points of a sequence of pixels under t.
PointsOf(t, pixels) ==
    [i \in 1..Len(pixels) |->
       <<xy(t, pixels[i][1], pixels[i][2])[2], xy(t, pixels[i][1], pixels[i][2])[1]>>]

SamplerDone == s_pc = "done"
ChangesDone == c_pc = "done"
TableDone == t_pc = "done"

\* The scan of lines 70-81 with the row-level pre-check taken out.
RECURSIVE ScanRowsNoPrecheck(_, _, _, _, _, _)
ScanRowsNoPrecheck(m, t, st, maxp, r, acc) ==
    IF acc.returned \/ acc.raised # "" \/ r >= Rows(m) THEN acc
    ELSE ScanRowsNoPrecheck(m, t, st, maxp, r + st,
                            ScanCols(m, t, st, maxp, r, 0, acc))

-----------------------------------------------------------------------------
(* Properties of mask_to_points (SamplerSpec) *)

\* C1: mask_to_points returns at most max_points points, and when the
\* stride grid holds at most max_points true pixels it returns exactly as
\* many points as the grid holds true pixels.
C1_CapAndExactCount ==
    SamplerDone =>
        /\ Len(res.pts) <= max_points
        /\ Len(StridedTrue(mask, step)) <= max_points
              => Len(res.pts) = Len(StridedTrue(mask, step))

C1_Witness ==
    /\ SamplerDone
    /\ step = 2
    /\ Len(StridedTrue(mask, step)) = 2
    /\ max_points >= 2
    /\ Len(res.pts) = 2
    /\ \E p \in DOMAIN mask.px : mask.px[p] /\ ~OnGrid(p, step)

\* C2: the returned points come from pixels in strictly ascending row-major
\* order: of two consecutive points the later one lies in a later row, or in
\* the same row at a later column; so no pixel is emitted twice.
C2_RowMajorAscending ==
    SamplerDone =>
        /\ res.pts = PointsOf(transform, res.pixels)
        /\ \A i \in 1..(Len(res.pixels) - 1) :
              RowMajorLess(res.pixels[i], res.pixels[i + 1])

C2_Witness ==
    /\ SamplerDone
    /\ Len(res.pixels) = 3
    /\ res.pixels[1][1] = res.pixels[2][1]
    /\ res.pixels[2][1] < res.pixels[3][1]
    /\ res.pixels[3][2] < res.pixels[2][2]

\* C3: when the stride grid holds more true pixels than max_points, the scan
\* returns as soon as the count reaches max_points, in the middle of a row
\* too, with exactly the first max_points true grid pixels in row-major
\* order; the (4,4) all-true mask with step 2 and max_points 3 gives the
\* pixels (0,0), (0,2), (2,0).
C3_PositionalTruncation ==
    SamplerDone =>
        /\ Len(StridedTrue(mask, step)) > max_points =>
              /\ res.returned
              /\ res.count = max_points
              /\ res.pixels = SubSeq(StridedTrue(mask, step), 1, max_points)
              /\ res.pts = PointsOf(transform, res.pixels)
        /\ (mask = ExampleMask /\ step = 2 /\ max_points = 3) =>
              res.pixels = << <<0, 0>>, <<0, 2>>, <<2, 0>> >>

C3_Witness ==
    /\ SamplerDone
    /\ mask = ExampleMask /\ step = 2 /\ max_points = 3
    /\ Len(StridedTrue(mask, step)) = 4
    /\ res.pixels = << <<0, 0>>, <<0, 2>>, <<2, 0>> >>
    /\ res.pts = PointsOf(transform, res.pixels)

\* C9: the row-level pre-check changes nothing that is returned: points,
\* their order and the place where the cap cuts are those of the same scan
\* without the pre-check.
C9_PrecheckUnobservable ==
    SamplerDone =>
        LET plain == ScanRowsNoPrecheck(mask, transform, step, max_points, 0, EmptyScan)
        IN  /\ res.pts = plain.pts
            /\ res.pixels = plain.pixels
            /\ res.returned = plain.returned
            /\ res.raised = plain.raised

C9_Witness ==
    /\ SamplerDone
    /\ \E r \in 0..(Rows(mask) - 1) :
          /\ r % step = 0
          /\ SkipRow(mask, r, step)
          /\ \E c \in 0..(Cols(mask) - 1) : mask.px[<<r, c>>]
    /\ res.returned
    /\ Len(res.pts) >= 2

\* C10: mask_to_points raises nothing; an all-false mask gives no points;
\* and with a step larger than both dimensions the result is the sample of
\* pixel (0,0) when that pixel is true and nothing otherwise.
C10_NoFailureEmptyAndLargeStep ==
    SamplerDone =>
        /\ res.raised = ""
        /\ (\A p \in DOMAIN mask.px : ~mask.px[p]) => res.pts = <<>>
        /\ (step > Rows(mask) /\ step > Cols(mask)) =>
              /\ Len(res.pts) <= 1
              /\ res.pixels = IF mask.px[<<0, 0>>] THEN << <<0, 0>> >> ELSE <<>>
              /\ res.pts = PointsOf(transform, res.pixels)

C10_Witness ==
    /\ SamplerDone
    /\ step > Rows(mask) /\ step > Cols(mask)
    /\ Cardinality({p \in DOMAIN mask.px : mask.px[p]}) >= 3
    /\ res.pixels = << <<0, 0>> >>
    /\ res.raised = ""

-----------------------------------------------------------------------------
(* Properties of compute_changes (ChangesSpec) *)

\* C4: at no pixel are the "new" mask and the "cleaned" mask both true.
C4_MutuallyExclusive ==
    ChangesDone =>
        \A p \in DOMAIN a.px : ~(new_mask.px[p] /\ cleaned_mask.px[p])

C4_Witness ==
    /\ ChangesDone
    /\ \E p \in DOMAIN a.px : new_mask.px[p]
    /\ \E p \in DOMAIN a.px : cleaned_mask.px[p]

\* The four transition classes of a pixel: new and cleaned as computed,
\* present in both (A and B) and absent in both (not A and not B), a value
\* counting as true when it is not zero.
ClassesAt(p) ==
    << new_mask.px[p],
       cleaned_mask.px[p],
       a.px[p] # 0 /\ b.px[p] # 0,
       a.px[p] = 0 /\ b.px[p] = 0 >>

ExactlyOneClass(p) ==
    Cardinality({k \in 1..4 : ClassesAt(p)[k]}) = 1

NonNegative(m) == \A p \in DOMAIN m.px : m.px[p] >= 0

\* C5 as stated: for every pair of equal-shape masks as read from the
\* rasters, exactly one of the four transition classes holds at every pixel.
C5_FourClassesCoverEveryPixel ==
    ChangesDone => \A p \in DOMAIN a.px : ExactlyOneClass(p)

\* C5 amended: for every pair of equal-shape masks whose pixel values are
\* all zero or positive, exactly one of the four transition classes holds at
\* every pixel.
C5_FourClassesCoverNonNegative ==
    (ChangesDone /\ NonNegative(a) /\ NonNegative(b)) =>
        \A p \in DOMAIN a.px : ExactlyOneClass(p)

C5_Witness ==
    /\ ChangesDone /\ NonNegative(a) /\ NonNegative(b)
    /\ \E p \in DOMAIN a.px : a.px[p] = 2 /\ b.px[p] = 1 /\ ClassesAt(p)[3]
    /\ \E p \in DOMAIN a.px : a.px[p] = 0 /\ b.px[p] = 2 /\ ClassesAt(p)[1]

-----------------------------------------------------------------------------
(* Properties of points_to_dataframe and to_csv (TableSpec) *)

\* The rows of a table, each as (latitude, longitude).
TableRows(d) == [i \in 1..NumRows(d) |-> <<d.data[1][i], d.data[2][i]>>]

\* C8: an empty point sequence gives a table of zero rows with exactly the
\* columns latitude, longitude, whose serialization is the header line
\* alone; a non-empty sequence gives the input points as rows, in the same
\* order, none dropped and none merged.
C8_TableKeepsSchemaAndOrder ==
    TableDone =>
        /\ df.columns = <<"latitude", "longitude">>
        /\ Len(df.data) = 2
        /\ TableRows(df) = points
        /\ csv[1] = <<"latitude", ",", "longitude">>
        /\ Len(csv) = 1 + Len(points)
        /\ \A i \in 1..Len(points) :
              csv[i + 1] = <<points[i][1], ",", points[i][2]>>

C8_Witness ==
    /\ TableDone
    /\ points = <<>>
    /\ NumRows(df) = 0
    /\ csv = << <<"latitude", ",", "longitude">> >>

-----------------------------------------------------------------------------
(* Properties of a run of the script (Spec) *)

Titled == {"error", "change", "map", "download"}

\* The positions of the outputs of one kind shown for one pair.
Outputs(kind, pair) ==
    { i \in 1..Len(ui) :
        /\ ui[i].kind = kind
        /\ ui[i].title = Title(pair[1], pair[2]) }

AnyOutput(pair) ==
    { i \in 1..Len(ui) :
        /\ ui[i].kind \in Titled
        /\ ui[i].title = Title(pair[1], pair[2]) }

Mismatched(pair) ==
    loaded[pair[1]].arr.shape # loaded[pair[2]].arr.shape

Called(pair) == \E i \in 1..Len(calls) : calls[i] = pair

\* C6: for a pair of masks of different shapes compute_changes is never
\* called, an error showing both shapes is the pair's only output (no change
\* masks, map or download), and the other pairs of the run are still
\* worked through.
C6_MismatchSkipsOnlyThatPair ==
    /\ \A i \in 1..Len(calls) : ~Mismatched(calls[i])
    /\ pc = "done" =>
          /\ pairs = PairsOf(loaded)
          /\ \A j \in 1..Len(pairs) :
                IF Mismatched(pairs[j])
                THEN /\ ~Called(pairs[j])
                     /\ Cardinality(AnyOutput(pairs[j])) = 1
                     /\ \E i \in Outputs("error", pairs[j]) :
                           ui[i].shapes = <<loaded[pairs[j][1]].arr.shape,
                                            loaded[pairs[j][2]].arr.shape>>
                ELSE /\ Called(pairs[j])
                     /\ Outputs("error", pairs[j]) = {}
                     /\ Cardinality(Outputs("change", pairs[j])) = 2
                     /\ Cardinality(Outputs("map", pairs[j])) = 1
                     /\ Cardinality(Outputs("download", pairs[j])) = 1

C6_Witness ==
    /\ pc = "done"
    /\ pairs = << <<"5y", "2y">>, <<"2y", "3m">> >>
    /\ Mismatched(pairs[1])
    /\ Outputs("error", pairs[1]) # {}
    /\ calls = << <<"2y", "3m">> >>
    /\ Outputs("download", pairs[2]) # {}

Selected(label) == label \in DOMAIN sel /\ sel[label] # None

Opens(label) == Selected(label) /\ disk[sel[label]].readable

Shown(label) == \E i \in 1..Len(ui) : ui[i].kind = "mask" /\ ui[i].key = label

\* C7: when a selected raster file cannot be opened, the failure is
\* reported, the other selected masks are still loaded and shown, and every
\* pair that does not use the failed file is still worked through in the
\* same run.
C7_ReadFailureIsPerFile ==
    (/\ pc \in {"done", "aborted"}
     /\ \E l \in {"5y", "2y", "3m"} : Selected(l) /\ ~Opens(l)) =>
        /\ \E i \in 1..Len(ui) : ui[i].kind \in {"exception", "error"}
        /\ \A l \in {"5y", "2y", "3m"} : Opens(l) => Shown(l)
        /\ \A pair \in {<<"5y", "2y">>, <<"2y", "3m">>} :
              (Opens(pair[1]) /\ Opens(pair[2])) => AnyOutput(pair) # {}

====
